---- MODULE Spec2Model ----
(***************************************************************************)
(* State-machine model of the content store of app.py: the files and      *)
(* pastes tables, the upload directory, the request handlers upload_file, *)
(* download_file, create_paste, view_paste and raw_paste, the deferred    *)
(* _delete_after_send thread and the cleanup_job sweeper.                 *)
(*                                                                         *)
(* Every SQL statement and every filesystem call is one atomic step; the  *)
(* handlers run in request threads whose steps interleave freely.  A      *)
(* handler's reading of the clock is taken in the step that uses it.      *)
(*                                                                         *)
(* Two failures of the environment are modelled: os.remove may raise and   *)
(* leave the file in place, and a DELETE of the sweeper may raise          *)
(* (sqlite3.OperationalError).  Failures of the statements of the request  *)
(* handlers, and the 400 answers to an upload without a file or without    *)
(* the terms agreed and to a paste without content, are left out.          *)
(***************************************************************************)
EXTENDS Integers, FiniteSets, Sequences, Bags, TLC

\* ------------------------------------------------------------------ bounds
NumThreads == 2        \* concurrent request threads
MaxReqs    == 3        \* requests ever started (creations and consumptions)
MaxSeqReqs == 4        \* the same, when the requests do not overlap
MaxNow     == 24       \* last value of the clock, in hours
TickHours  == 24       \* hours the clock advances in one step
MaxTries   == 2        \* colliding draws of a code generator that are counted

\* ------------------------------------------------------- program constants
TTL_HOURS == 24
SLEEP_HOURS == 2
MIN_USES  == 1
MAX_USES  == 100

\* ------------------------------------------------------------- input sets
FileCodes   == {"100000"}              \* str(random.randint(100000, 999999))
PasteCodes  == {"AAAAAA"}               \* "".join(random.choices(alphabet, k=6))
FileNames   == {"a.txt"}                \* secure_filename(file.filename)
FileBytes   == {"bytes1", "bytes2"}     \* the uploaded bytes
Contents    == {"hello"}                \* the paste's text
ReqMaxUses  == {0, 2, 101}              \* the requested max_downloads / max_views

\* data.get("max_views", 1) of the JSON body: an integer, or a number that
\* json.loads reads as float infinity (1e999).
JsonValues ==
    {[kind |-> "int", val |-> x] : x \in ReqMaxUses} \cup {[kind |-> "inf", val |-> 0]}

Threads == 1..NumThreads
Ids     == 1..(MaxSeqReqs + 1)
Absent  == "absent"                     \* no file at a path of the upload directory

VARIABLES
    files,      \* rows of the files table
    pastes,     \* rows of the pastes table
    fileSeq,    \* AUTOINCREMENT counter of files.id
    pasteSeq,   \* AUTOINCREMENT counter of pastes.id
    blobs,      \* upload directory: <<code, filename>> -> bytes or Absent
    now,        \* datetime.utcnow(), in hours
    th,         \* request threads: program counter and locals
    deferred,   \* running _delete_after_send threads
    sw,         \* the cleanup_job thread; history of the pass: kept and del count
                \* the rows it left and deleted, orph holds the blobs that had
                \* no record when it started
    left,       \* requests that may still be started
    served,     \* history: responses with the payload, per record
    passed      \* history: UPDATEs of the use counter issued, per record

vars == <<files, pastes, fileSeq, pasteSeq, blobs, now, th, deferred, sw, left, served, passed>>

Paths == FileCodes \X FileNames
NoRow == [id |-> 0]
Idle  == [pc |-> "idle"]

\* No finished handler is waiting to send its response: a response goes out
\* before anything else happens.
Quiet == \A t \in Threads : th[t].pc # "done"

\* A request is taken by a free worker thread (the first one: the workers
\* are interchangeable) while the request budget lasts.
Accepts(t) ==
    /\ th[t].pc = "idle"
    /\ \A u \in Threads : u < t => th[u].pc # "idle"
    /\ left > 0

\* The colliding draws of a code generator so far, counted up to MaxTries.
\* The loops of six_digit_code and six_char_code keep no such count.
Collided(tries) == IF tries < MaxTries THEN tries + 1 ELSE MaxTries

\* max(1, min(x, 100))
Clamp(x) ==
    LET lo == IF x < MAX_USES THEN x ELSE MAX_USES
    IN  IF lo > MIN_USES THEN lo ELSE MIN_USES

\* Mutant of Expired: > for >=.
ExpiredStrict(t, created_at) == t > created_at + TTL_HOURS

\* now >= created_at + timedelta(hours=24)
Expired(t, created_at) == t >= created_at + TTL_HOURS

\* os.path.join(UPLOAD_FOLDER, f"{code}_{filename}")
file_path(code, filename) == <<code, filename>>

\* os.path.exists(file_path)
path_exists(p) == blobs[p] # Absent

\* if os.path.exists(file_path): os.remove(file_path), inside try/except:
\* the directory afterwards.  A file that exists is removed, or os.remove
\* raises and it stays; a missing file is left alone.
RemoveFile(p) ==
    IF path_exists(p) THEN {[blobs EXCEPT ![p] = Absent], blobs} ELSE {blobs}

\* int(data.get("max_views", 1)) raises OverflowError on float infinity; the
\* handler catches ValueError only.
IntRaises(v) == v.kind = "inf"

FileByCode(code)  == {f \in files : f.code = code}
PasteByCode(code) == {p \in pastes : p.code = code}

\* The sweeper in time.sleep until the clock reaches wake.
Asleep(wake) ==
    [pc |-> "sleep", now |-> 0, rows |-> {}, kept |-> 0, del |-> 0, orph |-> {},
     wake |-> wake]

\* The state after init_db() on an empty database and an empty upload
\* directory, with a budget of requests.
Start(budget) ==
    /\ files = {}
    /\ pastes = {}
    /\ fileSeq = 0
    /\ pasteSeq = 0
    /\ blobs = [p \in Paths |-> Absent]
    /\ now = 0
    /\ th = [t \in Threads |-> Idle]
    /\ deferred = EmptyBag
    /\ sw = Asleep(0)
    /\ left = budget
    /\ served = [k \in {"file", "paste"} \X Ids |-> 0]
    /\ passed = [k \in {"file", "paste"} \X Ids |-> 0]

Init == Start(MaxReqs)

\* The clock advances; a time.sleep of the sweeper that has run out returns.
Tick ==
    /\ Quiet
    /\ now + TickHours <= MaxNow
    /\ now' = now + TickHours
    /\ sw' = IF sw.pc = "sleep" /\ sw.wake <= now' THEN [sw EXCEPT !.wake = 0] ELSE sw
    /\ UNCHANGED <<files, pastes, fileSeq, pasteSeq, blobs, th, deferred, left, served, passed>>

\* ------------------------------------------------------------ upload_file
\* Lines 542-556: the form is read, max_downloads clamped and six_digit_code
\* entered: its first draw.  A draw that a row holds is re-rolled.
upload_file(t) ==
    /\ Quiet
    /\ Accepts(t)
    /\ left' = left - 1
    /\ \E x \in ReqMaxUses, n \in FileNames, b \in FileBytes, code \in FileCodes :
         th' = [th EXCEPT ![t] = [pc |-> IF FileByCode(code) # {} THEN "up_code" ELSE "up_save",
                                  code |-> code, max_downloads |-> Clamp(x),
                                  safe_name |-> n, bytes |-> b,
                                  tries |-> IF FileByCode(code) # {} THEN Collided(0) ELSE 0]]
    /\ UNCHANGED <<files, pastes, fileSeq, pasteSeq, blobs, now, deferred, sw, served, passed>>

\* Lines 296-301: a further turn of six_digit_code's loop (while True: the
\* loop has no other exit than a free code).
six_digit_code(t) ==
    /\ Quiet
    /\ th[t].pc = "up_code"
    /\ \E code \in FileCodes :
         th' = [th EXCEPT ![t].pc = IF FileByCode(code) # {} THEN "up_code" ELSE "up_save",
                          ![t].code = code,
                          ![t].tries = IF FileByCode(code) # {} THEN Collided(@) ELSE 0]
    /\ UNCHANGED <<files, pastes, fileSeq, pasteSeq, blobs, now, deferred, sw, left, served, passed>>

\* file.save(filepath): the blob is written, over whatever the path held.
upload_save(t) ==
    /\ Quiet
    /\ th[t].pc = "up_save"
    /\ blobs' = [blobs EXCEPT ![file_path(th[t].code, th[t].safe_name)] = th[t].bytes]
    /\ th' = [th EXCEPT ![t].pc = "up_insert"]
    /\ UNCHANGED <<files, pastes, fileSeq, pasteSeq, now, deferred, sw, left, served, passed>>

\* Mutant of FileCodeTaken: the column is not UNIQUE.
FileCodeTakenNever(code) == FALSE

\* code TEXT UNIQUE: whether an INSERT of this code is refused.
FileCodeTaken(code) == FileByCode(code) # {}

\* INSERT INTO files: refused (IntegrityError, a 500) when the code is held.
upload_insert(t) ==
    /\ Quiet
    /\ th[t].pc = "up_insert"
    /\ IF FileCodeTaken(th[t].code)
       THEN /\ th' = [th EXCEPT ![t] = [pc |-> "done", op |-> "upload", out |-> "Error",
                                        row |-> NoRow, tnow |-> now, prior |-> 0]]
            /\ UNCHANGED <<files, fileSeq>>
       ELSE /\ fileSeq' = fileSeq + 1
            /\ files' = files \cup {[id |-> fileSeq + 1, code |-> th[t].code,
                                     filename |-> th[t].safe_name, created_at |-> now,
                                     max_downloads |-> th[t].max_downloads,
                                     current_downloads |-> 0]}
            /\ th' = [th EXCEPT ![t] = [pc |-> "done", op |-> "upload", out |-> "Created",
                                        row |-> NoRow, tnow |-> now, prior |-> 0]]
    /\ UNCHANGED <<pastes, pasteSeq, blobs, now, deferred, sw, left, served, passed>>

\* ---------------------------------------------------------- download_file
\* Lines 585-599: SELECT ... FROM files WHERE code=?; 404 when there is no row.
download_file(t) ==
    /\ Quiet
    /\ Accepts(t)
    /\ left' = left - 1
    /\ \E code \in FileCodes :
         IF FileByCode(code) = {}
         THEN th' = [th EXCEPT ![t] = [pc |-> "done", op |-> "download", out |-> "NotFound",
                                       row |-> NoRow, tnow |-> now, prior |-> 0]]
         ELSE \E row \in FileByCode(code) :
                th' = [th EXCEPT ![t] = [pc |-> "dl_check", op |-> "download", row |-> row,
                                         prior |-> served[<<"file", row.id>>]]]
    /\ UNCHANGED <<files, pastes, fileSeq, pasteSeq, blobs, now, deferred, sw, served, passed>>

\* Line 601: the branch taken on the row as read, the clock and the directory.
\* download_file tests no quota: current_downloads is not compared to
\* max_downloads before the UPDATE.
DownloadRefused(t, row) ==
    \/ Expired(now, row.created_at)
    \/ ~path_exists(file_path(row.code, row.filename))

download_check(t) ==
    /\ Quiet
    /\ th[t].pc = "dl_check"
    /\ th' = [th EXCEPT ![t] = [pc |-> IF DownloadRefused(t, th[t].row)
                                       THEN "dl_exp_remove" ELSE "dl_update",
                                tnow |-> now] @@ @]
    /\ UNCHANGED <<files, pastes, fileSeq, pasteSeq, blobs, now, deferred, sw, left, served, passed>>

\* Mutant of download_expire_remove: the exception of os.remove is not caught
\* and ends the request with a 500.
download_expire_remove_raising(t) ==
    /\ Quiet
    /\ th[t].pc = "dl_exp_remove"
    /\ LET p == file_path(th[t].row.code, th[t].row.filename)
       IN  /\ blobs' \in RemoveFile(p)
           /\ th' = [th EXCEPT ![t] =
                       IF path_exists(p) /\ blobs'[p] # Absent
                       THEN [pc |-> "done", op |-> "download", out |-> "Error",
                             row |-> th[t].row, tnow |-> th[t].tnow, prior |-> th[t].prior]
                       ELSE [pc |-> "dl_exp_delete",
                             rm |-> IF ~path_exists(p) THEN "missing" ELSE "removed"] @@ @]
    /\ UNCHANGED <<files, pastes, fileSeq, pasteSeq, now, deferred, sw, left, served, passed>>

\* Lines 602-606: if os.path.exists(file_path): os.remove(file_path), an
\* exception of os.remove passed over.  rm keeps what the removal did.
download_expire_remove(t) ==
    /\ Quiet
    /\ th[t].pc = "dl_exp_remove"
    /\ LET p == file_path(th[t].row.code, th[t].row.filename)
       IN  /\ blobs' \in RemoveFile(p)
           /\ th' = [th EXCEPT ![t] = [pc |-> "dl_exp_delete",
                                       rm |-> IF ~path_exists(p) THEN "missing"
                                              ELSE IF blobs'[p] = Absent THEN "removed"
                                              ELSE "raised"] @@ @]
    /\ UNCHANGED <<files, pastes, fileSeq, pasteSeq, now, deferred, sw, left, served, passed>>

\* Lines 607-610: DELETE FROM files WHERE id=?; 410.
download_expire_delete(t) ==
    /\ Quiet
    /\ th[t].pc = "dl_exp_delete"
    /\ files' = {f \in files : f.id # th[t].row.id}
    /\ th' = [th EXCEPT ![t] = [pc |-> "done", op |-> "download", out |-> "Expired",
                                row |-> th[t].row, tnow |-> th[t].tnow, prior |-> th[t].prior,
                                rm |-> th[t].rm]]
    /\ UNCHANGED <<pastes, pasteSeq, fileSeq, blobs, now, deferred, sw, left, served, passed>>

\* Mutant of download_update: the UPDATE is not executed before the transfer.
download_update_skipped(t) ==
    /\ Quiet
    /\ th[t].pc = "dl_update"
    /\ th' = [th EXCEPT ![t].pc = "dl_send"]
    /\ UNCHANGED <<files, pastes, pasteSeq, fileSeq, blobs, now, deferred, sw, left, served,
                   passed>>

\* Mutant of download_update: the UPDATE writes max_downloads too.
download_update_quota(t) ==
    /\ Quiet
    /\ th[t].pc = "dl_update"
    /\ files' = {IF f.id = th[t].row.id
                 THEN [f EXCEPT !.current_downloads = th[t].row.current_downloads + 1,
                                !.max_downloads = @ + 1]
                 ELSE f : f \in files}
    /\ passed' = [passed EXCEPT ![<<"file", th[t].row.id>>] = @ + 1]
    /\ th' = [th EXCEPT ![t].pc = "dl_send"]
    /\ UNCHANGED <<pastes, pasteSeq, fileSeq, blobs, now, deferred, sw, left, served>>

\* Lines 612-615: UPDATE files SET current_downloads=? WHERE id=?, with the
\* count read by the SELECT plus one.
download_update(t) ==
    /\ Quiet
    /\ th[t].pc = "dl_update"
    /\ files' = {IF f.id = th[t].row.id
                 THEN [f EXCEPT !.current_downloads = th[t].row.current_downloads + 1]
                 ELSE f : f \in files}
    /\ passed' = [passed EXCEPT ![<<"file", th[t].row.id>>] = @ + 1]
    /\ th' = [th EXCEPT ![t].pc = "dl_send"]
    /\ UNCHANGED <<pastes, pasteSeq, fileSeq, blobs, now, deferred, sw, left, served>>

\* Mutant of send_from_directory: the response is built without looking for
\* the file.
send_from_directory_blind(row) == TRUE

\* send_from_directory(UPLOAD_FOLDER, f"{code}_{filename}"): whether it finds
\* the file; it raises NotFound otherwise.
send_from_directory(row) == path_exists(file_path(row.code, row.filename))

\* Lines 617-635: send_from_directory (a 404 when the file is gone), then the
\* _delete_after_send thread is started when new_count >= max_downloads.
download_send(t) ==
    /\ Quiet
    /\ th[t].pc = "dl_send"
    /\ LET row == th[t].row
           new_count == row.current_downloads + 1
       IN  IF ~send_from_directory(row)
           THEN /\ th' = [th EXCEPT ![t] = [pc |-> "done", op |-> "download",
                                            out |-> "NotFound", row |-> row,
                                            tnow |-> th[t].tnow, prior |-> th[t].prior]]
                /\ UNCHANGED <<deferred, served>>
           ELSE /\ th' = [th EXCEPT ![t] = [pc |-> "done", op |-> "download",
                                            out |-> "Served", row |-> row,
                                            tnow |-> th[t].tnow, prior |-> th[t].prior]]
                /\ served' = [served EXCEPT ![<<"file", row.id>>] = @ + 1]
                /\ deferred' = IF new_count >= row.max_downloads
                               THEN deferred (+) SetToBag({[fid |-> row.id, code |-> row.code,
                                                            filename |-> row.filename,
                                                            pc |-> "remove"]})
                               ELSE deferred
    /\ UNCHANGED <<files, pastes, fileSeq, pasteSeq, blobs, now, sw, left, passed>>

\* ----------------------------------------------------- _delete_after_send
\* Mutant of delete_after_send_remove: os.remove is called with no test of
\* os.path.exists and outside try/except, so that a missing file ends the
\* thread.
delete_after_send_remove_unguarded ==
    /\ Quiet
    /\ \E d \in BagToSet(deferred) :
        /\ d.pc = "remove"
        /\ blobs' \in RemoveFile(file_path(d.code, d.filename))
        /\ deferred' = IF path_exists(file_path(d.code, d.filename))
                       THEN (deferred (-) SetToBag({d}))
                                (+) SetToBag({[d EXCEPT !.pc = "delete"]})
                       ELSE deferred (-) SetToBag({d})
    /\ UNCHANGED <<files, pastes, fileSeq, pasteSeq, now, th, sw, left, served, passed>>

\* Lines 622-627: after the sleep, the file is removed if it exists, an
\* exception passed over.
delete_after_send_remove ==
    /\ Quiet
    /\ \E d \in BagToSet(deferred) :
        /\ d.pc = "remove"
        /\ blobs' \in RemoveFile(file_path(d.code, d.filename))
        /\ deferred' = (deferred (-) SetToBag({d})) (+) SetToBag({[d EXCEPT !.pc = "delete"]})
    /\ UNCHANGED <<files, pastes, fileSeq, pasteSeq, now, th, sw, left, served, passed>>

\* Lines 628-631: DELETE FROM files WHERE id=?; the thread ends.
delete_after_send_delete ==
    /\ Quiet
    /\ \E d \in BagToSet(deferred) :
        /\ d.pc = "delete"
        /\ files' = {f \in files : f.id # d.fid}
        /\ deferred' = deferred (-) SetToBag({d})
    /\ UNCHANGED <<pastes, fileSeq, pasteSeq, blobs, now, th, sw, left, served, passed>>

\* ----------------------------------------------------------- create_paste
\* Lines 658-671: the JSON body is read, max_views converted (an exception
\* other than ValueError ends the request with a 500) and clamped, and
\* six_char_code entered: its first draw.  A draw that a row holds is re-rolled.
create_paste(t) ==
    /\ Quiet
    /\ Accepts(t)
    /\ left' = left - 1
    /\ \E v \in JsonValues, c \in Contents, code \in PasteCodes :
         th' = [th EXCEPT ![t] =
                  IF IntRaises(v)
                  THEN [pc |-> "done", op |-> "create_paste", out |-> "Error",
                        row |-> NoRow, tnow |-> now, prior |-> 0]
                  ELSE [pc |-> IF PasteByCode(code) # {} THEN "cp_code" ELSE "cp_insert",
                        code |-> code, max_views |-> Clamp(v.val),
                        content |-> c, lang |-> "plaintext",
                        tries |-> IF PasteByCode(code) # {} THEN Collided(0) ELSE 0]]
    /\ UNCHANGED <<files, pastes, fileSeq, pasteSeq, blobs, now, deferred, sw, served, passed>>

\* Lines 311-316: a further turn of six_char_code's loop (while True).
six_char_code(t) ==
    /\ Quiet
    /\ th[t].pc = "cp_code"
    /\ \E code \in PasteCodes :
         th' = [th EXCEPT ![t].pc = IF PasteByCode(code) # {} THEN "cp_code" ELSE "cp_insert",
                          ![t].code = code,
                          ![t].tries = IF PasteByCode(code) # {} THEN Collided(@) ELSE 0]
    /\ UNCHANGED <<files, pastes, fileSeq, pasteSeq, blobs, now, deferred, sw, left, served, passed>>

PasteCodeTaken(code) == PasteByCode(code) # {}

\* INSERT INTO pastes: refused (IntegrityError, a 500) when the code is held.
paste_insert(t) ==
    /\ Quiet
    /\ th[t].pc = "cp_insert"
    /\ IF PasteCodeTaken(th[t].code)
       THEN /\ th' = [th EXCEPT ![t] = [pc |-> "done", op |-> "create_paste", out |-> "Error",
                                        row |-> NoRow, tnow |-> now, prior |-> 0]]
            /\ UNCHANGED <<pastes, pasteSeq>>
       ELSE /\ pasteSeq' = pasteSeq + 1
            /\ pastes' = pastes \cup {[id |-> pasteSeq + 1, code |-> th[t].code,
                                       content |-> th[t].content, lang |-> th[t].lang,
                                       created_at |-> now, max_views |-> th[t].max_views,
                                       current_views |-> 0]}
            /\ th' = [th EXCEPT ![t] = [pc |-> "done", op |-> "create_paste",
                                        out |-> "Created", row |-> NoRow, tnow |-> now,
                                        prior |-> 0]]
    /\ UNCHANGED <<files, fileSeq, blobs, now, deferred, sw, left, served, passed>>

\* ------------------------------------------------- view_paste / raw_paste
\* Lines 693-706 and 726-738: SELECT ... FROM pastes WHERE code=?; 404 when
\* there is no row.
PasteLookup(t, op) ==
    /\ Quiet
    /\ Accepts(t)
    /\ left' = left - 1
    /\ \E code \in PasteCodes :
         IF PasteByCode(code) = {}
         THEN th' = [th EXCEPT ![t] = [pc |-> "done", op |-> op, out |-> "NotFound",
                                       row |-> NoRow, tnow |-> now, prior |-> 0]]
         ELSE \E row \in PasteByCode(code) :
                th' = [th EXCEPT ![t] = [pc |-> "paste_gate", op |-> op, row |-> row,
                                         prior |-> served[<<"paste", row.id>>]]]
    /\ UNCHANGED <<files, pastes, fileSeq, pasteSeq, blobs, now, deferred, sw, served, passed>>

view_paste(t) == PasteLookup(t, "view")
raw_paste(t)  == PasteLookup(t, "raw")

\* Mutant of PasteRefused: the quota is not tested.
PasteRefusedNoQuota(t, row) == Expired(now, row.created_at)

\* Lines 708 and 740: the test on the row as read and the clock.
PasteRefused(t, row) ==
    \/ Expired(now, row.created_at)
    \/ row.current_views >= row.max_views

\* The response of the refusing branch: view_paste renders
\* paste_not_found.html with 404 (line 712), raw_paste answers 410 (line 744).
RefusedOutcome(op) == IF op = "view" THEN "NotFound" ELSE "Expired"

\* Lines 708-718 and 740-750: DELETE FROM pastes WHERE id=? and the refusal,
\* or UPDATE pastes SET current_views=? WHERE id=? (the count read plus one)
\* and the content.
paste_gate(t) ==
    /\ Quiet
    /\ th[t].pc = "paste_gate"
    /\ LET row == th[t].row
       IN  IF PasteRefused(t, row)
           THEN /\ pastes' = {p \in pastes : p.id # row.id}
                /\ th' = [th EXCEPT ![t] = [pc |-> "done", op |-> th[t].op,
                                            out |-> RefusedOutcome(th[t].op), row |-> row,
                                            tnow |-> now, prior |-> th[t].prior]]
                /\ UNCHANGED <<served, passed>>
           ELSE /\ pastes' = {IF p.id = row.id
                              THEN [p EXCEPT !.current_views = row.current_views + 1]
                              ELSE p : p \in pastes}
                /\ th' = [th EXCEPT ![t] = [pc |-> "done", op |-> th[t].op,
                                            out |-> "Served", row |-> row,
                                            tnow |-> now, prior |-> th[t].prior]]
                /\ served' = [served EXCEPT ![<<"paste", row.id>>] = @ + 1]
                /\ passed' = [passed EXCEPT ![<<"paste", row.id>>] = @ + 1]
    /\ UNCHANGED <<files, fileSeq, pasteSeq, blobs, now, deferred, sw, left>>

\* ------------------------------------------------------------ cleanup_job
\* A file of the upload directory that no row of files names and that no
\* upload still has to insert.
Orphan(p) ==
    /\ path_exists(p)
    /\ \A f \in files : file_path(f.code, f.filename) # p
    /\ \A t \in Threads :
          th[t].pc = "up_insert" => file_path(th[t].code, th[t].safe_name) # p

\* Lines 178-185: now is read and the files table is read whole.
cleanup_job_start ==
    /\ Quiet
    /\ sw.pc = "sleep"
    /\ now >= sw.wake
    /\ sw' = [pc |-> "files", now |-> now,
              rows |-> {[id |-> f.id, code |-> f.code, filename |-> f.filename,
                         created_at |-> f.created_at] : f \in files},
              kept |-> 0, del |-> 0, orph |-> {p \in Paths : Orphan(p)}, wake |-> 0]
    /\ UNCHANGED <<files, pastes, fileSeq, pasteSeq, blobs, now, th, deferred, left, served, passed>>

\* The next row of the scan: rows come in rowid order.
NextRow(rows) == CHOOSE r \in rows : \A q \in rows : r.id <= q.id

\* Mutant of SweepsFile: every row of the scan is deleted.
SweepsFileAlways(row) == TRUE

\* Line 193: whether the sweeper deletes a file row.
SweepsFile(row) ==
    \/ Expired(sw.now, row.created_at)
    \/ ~path_exists(file_path(row.code, row.filename))

\* Lines 186-201: one file row: the file is removed if it exists and the row
\* deleted, when the row is 24 hours old or its file is missing.
cleanup_job_file ==
    /\ Quiet
    /\ sw.pc = "files"
    /\ sw.rows # {}
    /\ LET row == NextRow(sw.rows)
       IN  /\ IF SweepsFile(row)
              THEN /\ blobs' \in RemoveFile(file_path(row.code, row.filename))
                   /\ files' = {f \in files : f.id # row.id}
                   /\ sw' = [sw EXCEPT !.rows = @ \ {row}, !.del = @ + 1]
              ELSE /\ UNCHANGED <<blobs, files>>
                   /\ sw' = [sw EXCEPT !.rows = @ \ {row}, !.kept = @ + 1]
    /\ UNCHANGED <<pastes, fileSeq, pasteSeq, now, th, deferred, left, served, passed>>

\* Lines 202-211: the files scan is over and the pastes table is read whole.
cleanup_job_pastes_start ==
    /\ Quiet
    /\ sw.pc = "files"
    /\ sw.rows = {}
    /\ sw' = [sw EXCEPT !.pc = "pastes",
                         !.rows = {[id |-> q.id, created_at |-> q.created_at] : q \in pastes}]
    /\ UNCHANGED <<files, pastes, fileSeq, pasteSeq, blobs, now, th, deferred, left, served, passed>>

\* Mutant of SweepsPaste: no paste row is deleted.
SweepsPasteNever(row) == FALSE

\* Line 215: whether the sweeper deletes a paste row.
SweepsPaste(row) == Expired(sw.now, row.created_at)

\* Lines 212-218: one paste row, deleted when it is 24 hours old.
cleanup_job_paste ==
    /\ Quiet
    /\ sw.pc = "pastes"
    /\ sw.rows # {}
    /\ LET row == NextRow(sw.rows)
       IN  /\ IF SweepsPaste(row)
              THEN /\ pastes' = {p \in pastes : p.id # row.id}
                   /\ sw' = [sw EXCEPT !.rows = @ \ {row}, !.del = @ + 1]
              ELSE /\ UNCHANGED pastes
                   /\ sw' = [sw EXCEPT !.rows = @ \ {row}, !.kept = @ + 1]
    /\ UNCHANGED <<files, fileSeq, pasteSeq, blobs, now, th, deferred, left, served, passed>>

\* Lines 219-227: the pass is over; time.sleep(2 * 60 * 60).
cleanup_job_sleep ==
    /\ Quiet
    /\ sw.pc = "pastes"
    /\ sw.rows = {}
    /\ sw' = Asleep(now + SLEEP_HOURS)
    /\ UNCHANGED <<files, pastes, fileSeq, pasteSeq, blobs, now, th, deferred, left, served, passed>>

\* Lines 194-199 or 216, then 223-227: the DELETE of a row that is due raises
\* (after the file's removal, for a file row).  The exception leaves both
\* loops for the except clause of line 223: the rows left are not looked at,
\* and the pass ends in time.sleep.
cleanup_job_error ==
    /\ Quiet
    /\ sw.pc \in {"files", "pastes"}
    /\ sw.rows # {}
    /\ LET row == NextRow(sw.rows)
       IN  IF sw.pc = "files"
           THEN /\ SweepsFile(row)
                /\ blobs' \in RemoveFile(file_path(row.code, row.filename))
           ELSE /\ SweepsPaste(row)
                /\ UNCHANGED blobs
    /\ sw' = Asleep(now + SLEEP_HOURS)
    /\ UNCHANGED <<files, pastes, fileSeq, pasteSeq, now, th, deferred, left, served, passed>>

\* The response is sent and the thread is free for the next request.
Return(t) ==
    /\ th[t].pc = "done"
    /\ th' = [th EXCEPT ![t] = Idle]
    /\ UNCHANGED <<files, pastes, fileSeq, pasteSeq, blobs, now, deferred, sw, left, served, passed>>

Next ==
    \/ Tick
    \/ \E t \in Threads : upload_file(t)
    \/ \E t \in Threads : six_digit_code(t)
    \/ \E t \in Threads : upload_save(t)
    \/ \E t \in Threads : upload_insert(t)
    \/ \E t \in Threads : download_file(t)
    \/ \E t \in Threads : download_check(t)
    \/ \E t \in Threads : download_expire_remove(t)
    \/ \E t \in Threads : download_expire_delete(t)
    \/ \E t \in Threads : download_update(t)
    \/ \E t \in Threads : download_send(t)
    \/ delete_after_send_remove
    \/ delete_after_send_delete
    \/ \E t \in Threads : create_paste(t)
    \/ \E t \in Threads : six_char_code(t)
    \/ \E t \in Threads : paste_insert(t)
    \/ \E t \in Threads : view_paste(t)
    \/ \E t \in Threads : raw_paste(t)
    \/ \E t \in Threads : paste_gate(t)
    \/ cleanup_job_start
    \/ cleanup_job_file
    \/ cleanup_job_pastes_start
    \/ cleanup_job_paste
    \/ cleanup_job_sleep
    \/ cleanup_job_error
    \/ \E t \in Threads : Return(t)

Spec == Init /\ [][Next]_vars

\* The same program serving one request at a time: a request is taken only
\* when no other is in progress.  The sweeper and the deferred deletions
\* still run beside it.
InitSeq == Start(MaxSeqReqs)
Busy == {t \in Threads : th[t].pc # "idle"}
NextSeq == Next /\ Cardinality(Busy') <= 1
SpecSeq == InitSeq /\ [][NextSeq]_vars

\* ------------------------------------------------------------------ claims
\* The live records of both tables, with their counters under common names.
Live ==
    {[kind |-> "file", id |-> f.id, code |-> f.code, created_at |-> f.created_at,
      maxUses |-> f.max_downloads, currentUses |-> f.current_downloads] : f \in files}
    \cup
    {[kind |-> "paste", id |-> q.id, code |-> q.code, created_at |-> q.created_at,
      maxUses |-> q.max_views, currentUses |-> q.current_views] : q \in pastes}

\* Thread t holds the response of a consumption request that found a row.
Consumed(t) ==
    /\ th[t].pc = "done"
    /\ th[t].op \in {"download", "view", "raw"}
    /\ th[t].row.id # 0

\* The quota and the counter of the row a consumption request read.
RowMax(t) == IF th[t].op = "download" THEN th[t].row.max_downloads ELSE th[t].row.max_views
RowUses(t) == IF th[t].op = "download" THEN th[t].row.current_downloads
              ELSE th[t].row.current_views

\* C1: a record created with maxUses = 1 is Served at most once, however the
\* consumption requests for its code interleave.
C1_SingleUseServedOnce ==
    \A r \in Live : r.maxUses = 1 => served[<<r.kind, r.id>>] <= 1

\* C2: the number of Served outcomes of a record never exceeds its maxUses.
C2_ServedWithinQuota ==
    \A r \in Live : served[<<r.kind, r.id>>] <= r.maxUses

\* C3: no two live records of the same kind hold the same code.
C3_UniqueCodes ==
    \A r1 \in Live, r2 \in Live :
        (r1.kind = r2.kind /\ r1.id # r2.id) => r1.code # r2.code

\* C3 witness: a creation drew the code of a record inserted meanwhile and its
\* INSERT was refused, while that record is live.
C3_Witness ==
    \E t \in Threads :
        /\ th[t].pc = "done"
        /\ th[t].op \in {"upload", "create_paste"}
        /\ th[t].out = "Error"
        /\ Live # {}

C5_ServedIffVisible ==
    \A t \in Threads :
        Consumed(t) =>
            (th[t].out = "Served" <=>
                (/\ th[t].tnow < th[t].row.created_at + TTL_HOURS
                 /\ RowUses(t) < RowMax(t)))

\* C6: once a file with max_downloads = 1 has been served, a later download
\* of its code is refused and the blob is gone from the upload directory.
C6_NoSecondDownload ==
    \A t \in Threads :
        (/\ Consumed(t)
         /\ th[t].op = "download"
         /\ th[t].row.max_downloads = 1
         /\ th[t].prior >= 1)
            => /\ th[t].out \in {"NotFound", "Expired"}
               /\ blobs[<<th[t].row.code, th[t].row.filename>>] = Absent

\* C7 as stated: of non-overlapping consumptions of a paste within its TTL,
\* the first max_views return the content and the next one answers Expired.
C7_ThenExpired ==
    \A t \in Threads :
        (/\ Consumed(t)
         /\ th[t].op \in {"view", "raw"}
         /\ th[t].tnow < th[t].row.created_at + TTL_HOURS)
            => IF th[t].prior < th[t].row.max_views
               THEN th[t].out = "Served"
               ELSE th[t].out = "Expired"

\* C7 as amended: the first max_views consumptions return the content and the
\* next one does not: raw_paste answers Expired (410), view_paste answers
\* with its not-found page (404).
C7_ThenRefused ==
    \A t \in Threads :
        (/\ Consumed(t)
         /\ th[t].op \in {"view", "raw"}
         /\ th[t].tnow < th[t].row.created_at + TTL_HOURS)
            => IF th[t].prior < th[t].row.max_views
               THEN th[t].out = "Served"
               ELSE th[t].out = (IF th[t].op = "view" THEN "NotFound" ELSE "Expired")

\* C7 witness: a paste with max_views = 2 was served twice and its third
\* consumption, within the TTL, was refused.
C7_Witness ==
    \E t \in Threads :
        /\ Consumed(t)
        /\ th[t].op \in {"view", "raw"}
        /\ th[t].tnow < th[t].row.created_at + TTL_HOURS
        /\ th[t].row.max_views = 2
        /\ th[t].prior = 2
        /\ th[t].out # "Served"

\* C8: every live record has 0 <= currentUses <= maxUses.
C8_UsesWithinQuota ==
    \A r \in Live : 0 <= r.currentUses /\ r.currentUses <= r.maxUses

\* C9: no increment is lost: the stored currentUses of a live record is the
\* number of consumption requests that passed its gate.
C9_NoLostIncrement ==
    \A r \in Live : r.currentUses = passed[<<r.kind, r.id>>]

\* The rows a sweeper step has just gone over, and whether such a row is
\* within its TTL at the pass's clock with its payload in place.
Swept == IF sw'.pc = sw.pc THEN sw.rows \ sw'.rows
         ELSE IF sw.pc \in {"files", "pastes"} /\ sw.rows # {} THEN {NextRow(sw.rows)}
         ELSE {}
IntactRow(r) ==
    /\ sw.now < r.created_at + TTL_HOURS
    /\ sw.pc = "files" => blobs[<<r.code, r.filename>>] # Absent

\* C10: a sweeper step over rows that are within their TTL and whose payload
\* exists deletes no record and removes no payload.
C10_SweepNoop ==
    [][(sw' # sw /\ \A r \in Swept : IntactRow(r))
          => UNCHANGED <<files, pastes, blobs>>]_vars

\* C10 witness: the sweeper has gone over a row that was within its TTL with
\* its payload in place, and the pass is still running.
C10_Witness ==
    /\ sw.pc \in {"files", "pastes"}
    /\ sw.kept >= 1

\* The path of a row, and whether this step is the removal step of a request
\* thread, of a _delete_after_send thread or of the sweeper on that path.
RowPath(row) == file_path(row.code, row.filename)
RequestRemoves(t, p) ==
    /\ th[t].pc = "dl_exp_remove"
    /\ th'[t] # th[t]
    /\ RowPath(th[t].row) = p
DeferredRemoves(d, p) ==
    /\ d.pc = "remove"
    /\ CopiesIn(d, deferred') < CopiesIn(d, deferred)
    /\ file_path(d.code, d.filename) = p
SweeperRemoves(p) ==
    /\ sw.pc = "files"
    /\ sw.rows # {}
    /\ sw' # sw
    /\ SweepsFile(NextRow(sw.rows))
    /\ RowPath(NextRow(sw.rows)) = p

\* C11: a removal of a payload that is already gone (from the expiry path of a
\* download, a deferred delete or the sweeper) raises no error, the operation
\* going on to its DELETE, and changes neither the upload directory nor the
\* tables; the sweeper's step, which holds its DELETE too, takes away no row
\* but the one it is at.
C11_RemovalIdempotent ==
    [][\A p \in Paths : blobs[p] = Absent =>
          /\ \A t \in Threads :
                RequestRemoves(t, p) =>
                    /\ th'[t].pc = "dl_exp_delete"
                    /\ UNCHANGED <<blobs, files, pastes>>
          /\ \A d \in BagToSet(deferred) :
                DeferredRemoves(d, p) =>
                    /\ CopiesIn([d EXCEPT !.pc = "delete"], deferred')
                          = CopiesIn([d EXCEPT !.pc = "delete"], deferred) + 1
                    /\ UNCHANGED <<blobs, files, pastes>>
          /\ SweeperRemoves(p) =>
                /\ UNCHANGED <<blobs, pastes>>
                /\ files' \subseteq files
                /\ \A f \in files \ files' : f.id = NextRow(sw.rows).id
      ]_vars

\* C11 witness: a download has gone through its removal on a file that an
\* earlier removal had taken away, and stands before its DELETE.
C11_Witness ==
    \E t \in Threads : th[t].pc = "dl_exp_delete" /\ th[t].rm = "missing"

\* C12: every record has 1 <= maxUses <= 100, and no creation is rejected
\* because of the max-uses it asked for: a creation fails only on a code that
\* a record of its kind holds.
C12_ClampedNeverRejected ==
    /\ \A r \in Live : MIN_USES <= r.maxUses /\ r.maxUses <= MAX_USES
    /\ \A t \in Threads :
          (th[t].pc = "done" /\ th[t].out = "Error") =>
              /\ th[t].op = "upload" => files # {}
              /\ th[t].op = "create_paste" => pastes # {}

\* C13: while a record is in its table, no step changes its code, created_at,
\* quota or payload reference (filename of a file; content and lang of a
\* paste), and it stays in the table of its kind; only the use counter changes.
C13_FieldsImmutable ==
    [][/\ \A f \in files : \A g \in files' :
            g.id = f.id =>
                /\ g.code = f.code
                /\ g.filename = f.filename
                /\ g.created_at = f.created_at
                /\ g.max_downloads = f.max_downloads
       /\ \A q \in pastes : \A g \in pastes' :
            g.id = q.id =>
                /\ g.code = q.code
                /\ g.content = q.content
                /\ g.lang = q.lang
                /\ g.created_at = q.created_at
                /\ g.max_views = q.max_views
      ]_vars

\* C13 witness: a record whose counter has been written is in its table, and
\* a record of the other kind beside it.
C13_Witness ==
    \E r \in Live, o \in Live : r.currentUses >= 1 /\ o.kind # r.kind

\* C14: a download answered Served has its file in the upload directory when
\* the response is handed over, and a _delete_after_send thread runs only for
\* a record whose payload has been handed over: a download that passed the
\* test of line 601 and whose file another deletion removed meanwhile is not
\* answered Served.
C14_ServedHasPayload ==
    /\ \A t \in Threads :
          (Consumed(t) /\ th[t].op = "download" /\ th[t].out = "Served")
              => blobs[RowPath(th[t].row)] # Absent
    /\ \A d \in BagToSet(deferred) : served[<<"file", d.fid>>] >= 1

\* C14 witness: a download passed the test of line 601 and wrote the counter,
\* its file was removed before send_from_directory, and it was answered 404.
C14_Witness ==
    \E t \in Threads :
        /\ Consumed(t)
        /\ th[t].op = "download"
        /\ th[t].out = "NotFound"
        /\ blobs[RowPath(th[t].row)] = Absent

\* C15: when a Served consumption has brought the counter to the quota, the
\* deletion of the record follows from that consumption: as its response goes
\* out, a deletion of the record is under way (a _delete_after_send thread
\* for it) or the record is gone already, for files and for pastes.
C15_DeletionFollows ==
    \A t \in Threads :
        (Consumed(t) /\ th[t].out = "Served" /\ RowUses(t) + 1 >= RowMax(t)) =>
            \/ /\ th[t].op = "download"
               /\ \E d \in BagToSet(deferred) : d.fid = th[t].row.id
            \/ /\ th[t].op = "download"
               /\ \A f \in files : f.id # th[t].row.id
            \/ /\ th[t].op \in {"view", "raw"}
               /\ \A q \in pastes : q.id # th[t].row.id

\* Thread t has found its record 24 hours old at line 601 and is in the
\* expiry path of download_file: before the removal of the file or before
\* the DELETE of the row and the 410.
InExpiryPath(t) ==
    /\ th[t].pc \in {"dl_exp_remove", "dl_exp_delete"}
    /\ th[t].tnow >= th[t].row.created_at + TTL_HOURS

\* C16: of the downloads of one code that run together after the TTL, at most
\* one is in the expiry path: the test of line 601 and the deletion are atomic
\* for the others, so that one request at most removes the payload and one at
\* most deletes the record and reports it.
C16_ExpiryExclusive ==
    \A t \in Threads : \A u \in Threads :
        (t # u /\ InExpiryPath(t) /\ InExpiryPath(u))
            => th[t].row.id # th[u].row.id

\* This step ends a pass of the sweeper that went over every row it read.
PassCompletes == sw.pc = "pastes" /\ sw.rows = {} /\ sw'.pc = "sleep"

\* C17: when a pass of the sweeper completes, no record of either kind that
\* was 24 hours old at the pass's clock is left; and a file row whose file is
\* missing when the pass comes to it is deleted by that step.
C17_SweepLeavesNoneDue ==
    [][/\ PassCompletes =>
            \A r \in Live' : ~(r.created_at + TTL_HOURS <= sw.now)
       /\ (sw.pc = "files" /\ sw'.pc = "files" /\ sw' # sw) =>
            (blobs[RowPath(NextRow(sw.rows))] = Absent
                => \A f \in files' : f.id # NextRow(sw.rows).id)
      ]_vars

\* C17 witness: a pass has deleted a row and gone over every row it read.
C17_Witness ==
    /\ sw.pc = "pastes"
    /\ sw.rows = {}
    /\ sw.del >= 1

\* C18: a file of the upload directory that has no record when a pass of the
\* sweeper starts is no longer a file without a record when that pass
\* completes.
C18_SweepRemovesOrphans ==
    [][PassCompletes => \A p \in sw.orph : ~Orphan(p)']_vars

\* os.remove raised in this step: the file was there and it still is.
Raised(p) == blobs[p] # Absent /\ blobs'[p] # Absent

\* C19: an os.remove that raises does not fail the operation around it: the
\* download goes on to its DELETE, deletes the row and answers Expired; the
\* _delete_after_send thread goes on to its DELETE and deletes the row; the
\* sweeper, when its DELETE goes through, has deleted the row and goes on
\* with the rows left.
C19_RemovalFailurePassedOver ==
    [][/\ \A t \in Threads :
            /\ (RequestRemoves(t, RowPath(th[t].row)) /\ Raised(RowPath(th[t].row)))
                  => th'[t].pc = "dl_exp_delete"
            /\ (th[t].pc = "dl_exp_delete" /\ th[t].rm = "raised" /\ th'[t] # th[t])
                  => /\ th'[t].pc = "done"
                     /\ th'[t].out = "Expired"
                     /\ \A f \in files' : f.id # th[t].row.id
       /\ \A d \in BagToSet(deferred) :
            /\ (DeferredRemoves(d, file_path(d.code, d.filename))
                   /\ Raised(file_path(d.code, d.filename)))
                  => CopiesIn([d EXCEPT !.pc = "delete"], deferred')
                        = CopiesIn([d EXCEPT !.pc = "delete"], deferred) + 1
            /\ (d.pc = "delete" /\ CopiesIn(d, deferred') < CopiesIn(d, deferred))
                  => \A f \in files' : f.id # d.fid
       /\ \A p \in Paths :
            (SweeperRemoves(p) /\ Raised(p) /\ sw'.pc = "files")
                  => /\ \A f \in files' : f.id # NextRow(sw.rows).id
                     /\ sw'.rows = sw.rows \ {NextRow(sw.rows)}
      ]_vars

\* C19 witness: a download whose os.remove raised has deleted its row and
\* answered Expired, the file still in the upload directory.
C19_Witness ==
    \E t \in Threads :
        /\ Consumed(t)
        /\ th[t].op = "download"
        /\ th[t].out = "Expired"
        /\ th[t].rm = "raised"
        /\ blobs[RowPath(th[t].row)] # Absent
        /\ \A f \in files : f.id # th[t].row.id

\* This step ends a pass of the sweeper, complete or not.
PassEnds == sw.pc \in {"files", "pastes"} /\ sw'.pc = "sleep"

\* C20: a failure on one row does not end the sweeper's pass: when a pass
\* ends, every record that was 24 hours old at the pass's clock has been
\* deleted, but the one on which an error was raised.
C20_SweepGoesOn ==
    [][PassEnds =>
          \A r \in Live' :
              (r.created_at + TTL_HOURS <= sw.now) =>
                  /\ sw.rows # {}
                  /\ r.kind = (IF sw.pc = "files" THEN "file" ELSE "paste")
                  /\ r.id = NextRow(sw.rows).id
      ]_vars

\* C21: a creation that comes to its INSERT completes and returns a code it
\* owns: a code that another creation has taken since the draw is not
\* reported to the caller as an error.
C21_DuplicateNeverSurfaces ==
    [][\A t \in Threads :
          /\ (th[t].pc = "up_insert" /\ th'[t] # th[t]) =>
                /\ th'[t].out = "Created"
                /\ \E f \in files' : f.id = fileSeq' /\ f.code = th[t].code
          /\ (th[t].pc = "cp_insert" /\ th'[t] # th[t]) =>
                /\ th'[t].out = "Created"
                /\ \E q \in pastes' : q.id = pasteSeq' /\ q.code = th[t].code
      ]_vars

\* C22: a code generator gives up after a bounded number of colliding draws:
\* it is never at its MaxTries-th colliding draw, still drawing.
C22_GeneratorGivesUp ==
    \A t \in Threads :
        th[t].pc \in {"up_code", "cp_code"} => th[t].tries < MaxTries

\* C23: a consumption that passed the gate has its increment committed before
\* the transfer starts: the row, if it is still there, holds the count read
\* plus one when the handler comes to the transfer, and the transfer, whether
\* it serves or fails, neither takes the increment back nor adds another.
C23_IncrementBeforeTransfer ==
    [][\A t \in Threads :
          /\ (th[t].pc = "dl_update" /\ th'[t] # th[t]) =>
                /\ th'[t].pc = "dl_send"
                /\ \A f \in files' :
                      f.id = th[t].row.id
                          => f.current_downloads = th[t].row.current_downloads + 1
          /\ (th[t].pc = "dl_send" /\ th'[t] # th[t]) =>
                UNCHANGED <<files, pastes, passed>>
          /\ (th[t].pc = "paste_gate" /\ th'[t].pc = "done" /\ th'[t].out = "Served") =>
                \A q \in pastes' :
                      q.id = th[t].row.id
                          => q.current_views = th[t].row.current_views + 1
      ]_vars

\* C23 witness: a download wrote its increment, its transfer failed (the file
\* was gone, a 404), and the row holds the count read plus one.
C23_Witness ==
    \E t \in Threads :
        /\ Consumed(t)
        /\ th[t].op = "download"
        /\ th[t].out = "NotFound"
        /\ \E f \in files :
              /\ f.id = th[t].row.id
              /\ f.current_downloads = th[t].row.current_downloads + 1

\* C24: a _delete_after_send thread started for one record removes neither
\* the file nor the row of another record: its removal leaves the file of a
\* record with another id as it is, and its DELETE leaves every row with
\* another id in the table.
C24_DeferredOwnRecordOnly ==
    [][\A d \in BagToSet(deferred) :
          /\ \A p \in Paths :
                DeferredRemoves(d, p) =>
                    \A f \in files :
                        (f.id # d.fid /\ RowPath(f) = p) => blobs'[p] = blobs[p]
          /\ (d.pc = "delete" /\ CopiesIn(d, deferred') < CopiesIn(d, deferred)) =>
                \A f \in files : f.id # d.fid => f \in files'
      ]_vars

\* C25: a creation does not alter the payload of a live record: file.save
\* leaves the file of a record in the table as it is, and when an upload's
\* INSERT goes through, the file at its path holds the bytes of that upload.
C25_CreationKeepsPayloads ==
    [][\A t \in Threads :
          /\ (th[t].pc = "up_save" /\ th'[t] # th[t]) =>
                \A f \in files :
                    RowPath(f) = file_path(th[t].code, th[t].safe_name)
                        => blobs'[RowPath(f)] = blobs[RowPath(f)]
          /\ (th[t].pc = "up_insert" /\ th'[t].pc = "done" /\ th'[t].out = "Created") =>
                blobs[file_path(th[t].code, th[t].safe_name)] = th[t].bytes
      ]_vars
====
